---- MODULE Spec2Model ----
(***************************************************************************)
(* Model of medical_pharma_scraper.py: the card parser, the organizer      *)
(* extractor with its three heuristics, the two validators, the per-event  *)
(* driver loop of scrape_10times_medical_pharma, and the main block that   *)
(* writes the dataset file.                                                *)
(*                                                                         *)
(* Texts the code splits, lower-cases or matches against a regular         *)
(* expression (venue text, e-mail addresses) are sequences of one-         *)
(* character strings.  Texts the code only copies or compares (links,      *)
(* names, dates, status tags) are TLA+ strings.  'N/A' is NA for the       *)
(* latter and NAs for the former.  Network results, page content and the   *)
(* listing are inputs chosen by the environment when the code reads them.  *)
(* File writes are taken to succeed.                                       *)
(***************************************************************************)
EXTENDS Integers, Sequences, FiniteSets, TLC

VARIABLES
    pc,               \* position in the program
    listing_status,   \* how the fetch of the listing page ended, "pending" before it
    nCards,           \* len(event_cards) after the cap of line 222
    i,                \* loop index of line 227 (1-based)
    card,             \* the card of the current iteration
    event_data,       \* result of extract_event_data_from_card, or None
    page,             \* the detail page being examined by extract_organizer_details
    organizer_info,   \* the organizer_info dict
    k,                \* index into contact_links[:2] in Method 3
    validation_notes, \* the list built at lines 252-263
    scraped_data,     \* list of combined_data dicts
    validation_log,   \* list of log entries
    organizer_data,   \* return value of scrape_10times_medical_pharma
    csvFile,          \* content of OUTPUT_CSV
    logFile,          \* content of VALIDATION_LOG
    nDetailFetch,     \* requests.get calls on event pages so far
    nProbes,          \* requests.head calls so far
    contact_probes,   \* the calls of validate_url Method 3 has made on the page
                      \* in hand, in order: the URL and the value returned
    clock,            \* seconds slept so far (lower bound of elapsed time)
    lastFetch,        \* clock at the last event-page fetch, -1 before the first
    visited,          \* indices for which the loop body was entered, in order
    raisedAt,         \* indices at which some exception was raised and caught
    email,            \* argument of a call of validate_email_format alone
    result            \* its return value

vars == <<pc, listing_status, nCards, i, card, event_data, page, organizer_info, k,
          validation_notes, scraped_data, validation_log, organizer_data,
          csvFile, logFile, nDetailFetch, nProbes, contact_probes, clock,
          lastFetch, visited, raisedAt, email, result>>

-----------------------------------------------------------------------------
(* Bounds *)

MaxCards == 3         \* event cards found on the listing page
MaxVenueLen == 4      \* characters of a venue text (card-parser entry point)
MaxEmailLen == 7      \* characters of a string given to validate_email_format

(* Configuration panel, lines 29-37 *)

\* Shipped as 10 ("CHANGE THIS NUMBER"); scaled so that the cap of line 222
\* takes effect on listings of MaxCards cards.
EVENTS_TO_SCRAPE == 2
REQUEST_DELAY == 2

NA == "N/A"
NAs == <<"N", "/", "A">>
NoneVal == [none |-> TRUE]
IsNone(v) == "none" \in DOMAIN v

-----------------------------------------------------------------------------
(* str operations on character sequences *)

Whitespace == {" ", "\n", "\t"}

RECURSIVE LStrip(_)
LStrip(s) == IF s # <<>> /\ Head(s) \in Whitespace THEN LStrip(Tail(s)) ELSE s

RECURSIVE RStrip(_)
RStrip(s) ==
    IF s # <<>> /\ s[Len(s)] \in Whitespace
    THEN RStrip(SubSeq(s, 1, Len(s) - 1))
    ELSE s

\* str.strip()
Strip(s) == RStrip(LStrip(s))

\* sep in s, for a one-character sep
HasChar(s, sep) == \E n \in 1..Len(s) : s[n] = sep

\* s.split(sep), for a one-character sep: the list of parts
RECURSIVE Split(_, _)
Split(s, sep) ==
    IF ~HasChar(s, sep)
    THEN <<s>>
    ELSE LET n == CHOOSE m \in 1..Len(s) :
                      s[m] = sep /\ \A j \in 1..(m - 1) : s[j] # sep
         IN  <<SubSeq(s, 1, n - 1)>> \o Split(SubSeq(s, n + 1, Len(s)), sep)

\* frag in s
IsSubstring(frag, s) ==
    \E n \in 0..(Len(s) - Len(frag)) : SubSeq(s, n + 1, n + Len(frag)) = frag

UpperCase == <<"A","B","C","D","E","F","G","H","I","J","K","L","M",
               "N","O","P","Q","R","S","T","U","V","W","X","Y","Z">>
LowerCase == <<"a","b","c","d","e","f","g","h","i","j","k","l","m",
               "n","o","p","q","r","s","t","u","v","w","x","y","z">>

LowerChar(c) ==
    IF \E n \in 1..26 : UpperCase[n] = c
    THEN LowerCase[CHOOSE n \in 1..26 : UpperCase[n] = c]
    ELSE c

\* str.lower()
Lower(s) == [n \in 1..Len(s) |-> LowerChar(s[n])]

Letters == {UpperCase[n] : n \in 1..26} \cup {LowerCase[n] : n \in 1..26}
Digits == {"0","1","2","3","4","5","6","7","8","9"}

AllIn(s, class) == \A n \in 1..Len(s) : s[n] \in class

-----------------------------------------------------------------------------
(* validate_email_format, lines 69-72 *)

LocalClass == Letters \cup Digits \cup {".", "_", "%", "+", "-"}
DomainClass == Letters \cup Digits \cup {".", "-"}

\* s is in the language of [a-zA-Z0-9._%+-]+@[a-zA-Z0-9.-]+\.[a-zA-Z]{2,}
InEmailLanguage(s) ==
    \E at \in 2..Len(s) : \E dot \in (at + 2)..(Len(s) - 2) :
        /\ s[at] = "@"
        /\ s[dot] = "."
        /\ AllIn(SubSeq(s, 1, at - 1), LocalClass)
        /\ AllIn(SubSeq(s, at + 1, dot - 1), DomainClass)
        /\ AllIn(SubSeq(s, dot + 1, Len(s)), Letters)

\* re.match(r'^...$', s): without re.MULTILINE, $ matches at the end of the
\* string and also just before a newline that ends the string.
ReMatchAnchored(s) ==
    \/ InEmailLanguage(s)
    \/ /\ s # <<>>
       /\ s[Len(s)] = "\n"
       /\ InEmailLanguage(SubSeq(s, 1, Len(s) - 1))

validate_email_format(s) == ReMatchAnchored(s)

-----------------------------------------------------------------------------
(* extract_event_data_from_card, lines 143-198 *)

\* A card: the cell of class text-dark, the cell with an onclick attribute
\* and the div of class venue, each possibly missing.
Link1 == "https://10times.com/pharma-expo"
Link2 == "https://10times.com/medtech--summit-2026"
Link3 == "https://10times.com/events/"

Onclicks == {"window.open('https://10times.com/pharma-expo')",
             "window.open('https://10times.com/medtech--summit-2026')",
             "window.open('https://10times.com/events/')",
             "showEvent(42)", ""}

\* re.search(r"window\.open\(['\"]([^'\"]+)['\"]", onclick): group(1), or
\* NoneVal when the pattern is not found
url_match(onclick) ==
    CASE onclick = "window.open('https://10times.com/pharma-expo')" ->
             [group1 |-> Link1]
      [] onclick = "window.open('https://10times.com/medtech--summit-2026')" ->
             [group1 |-> Link2]
      [] onclick = "window.open('https://10times.com/events/')" ->
             [group1 |-> Link3]
      [] OTHER -> NoneVal

\* re.sub(r'-+', ' ', link.split('/')[-1]).title().strip()
SlugTitle(link) ==
    CASE link = Link1 -> "Pharma Expo"
      [] link = Link2 -> "Medtech Summit 2026"
      [] link = Link3 -> ""

\* lines 148-153
CardDate(c) == IF c.date_td.present THEN c.date_td.text ELSE NA

\* lines 155-171: <<event_link, event_name>>
CardLinkName(c) ==
    IF c.clickable_td.present
    THEN LET m == url_match(c.clickable_td.onclick)
         IN  IF ~IsNone(m)
             THEN <<m.group1, SlugTitle(m.group1)>>
             ELSE <<NA, NA>>
    ELSE <<NA, NA>>

\* lines 173-192: <<city, state>>
CardLocation(c) ==
    IF c.venue.present
    THEN IF c.venue.has_a
         THEN LET location == c.venue.a_text
              IN  IF HasChar(location, ",")
                  THEN LET parts == Split(location, ",")
                       IN  <<Strip(parts[1]),
                             IF Len(parts) > 1 THEN Strip(parts[Len(parts)])
                                               ELSE NAs>>
                  ELSE <<location, NAs>>
         ELSE <<c.venue.text, NAs>>
    ELSE <<NAs, NAs>>

\* raises: some statement of the try block raised (lines 196-198)
extract_event_data_from_card(c, raises) ==
    IF raises
    THEN NoneVal
    ELSE [event_date |-> CardDate(c),
          event_link |-> CardLinkName(c)[1],
          event_name |-> CardLinkName(c)[2],
          city |-> CardLocation(c)[1],
          state |-> CardLocation(c)[2]]

RECURSIVE SeqsUpTo(_, _)
\* all sequences over S of length at most n
SeqsUpTo(S, n) ==
    IF n = 0 THEN {<<>>}
    ELSE LET shorter == SeqsUpTo(S, n - 1)
         IN  shorter \cup {Append(s, x) : s \in shorter, x \in S}

\* get_text(strip=True) returns a text without outer whitespace
VenueAlphabet == {"B", "M", " ", ","}
VenueTexts(n) == {s \in SeqsUpTo(VenueAlphabet, n) : Strip(s) = s}

NoCell == [present |-> FALSE, text |-> ""]
NoClickable == [present |-> FALSE, onclick |-> ""]
NoVenue == [present |-> FALSE, has_a |-> FALSE, a_text |-> <<>>, text |-> <<>>]

DateCells == {NoCell, [present |-> TRUE, text |-> "Mon, 12 Jan 2026"],
              [present |-> TRUE, text |-> ""]}
ClickableCells == {NoClickable} \cup {[present |-> TRUE, onclick |-> o] : o \in Onclicks}
\* a venue div: with a sub-link (its text is read) or without (the div's text)
VenueDivs(n) ==
    {NoVenue}
    \cup {[present |-> TRUE, has_a |-> TRUE, a_text |-> t, text |-> t] : t \in VenueTexts(n)}
    \cup {[present |-> TRUE, has_a |-> FALSE, a_text |-> <<>>, text |-> t] : t \in VenueTexts(n)}

AllCards == [date_td : DateCells, clickable_td : ClickableCells,
             venue : VenueDivs(MaxVenueLen)]

NoCard == [date_td |-> NoCell, clickable_td |-> NoClickable, venue |-> NoVenue]

\* the cards of the listings of a run
BostonMA == <<"B", ",", " ", "M">>
RunCards ==
    {[date_td |-> [present |-> TRUE, text |-> "Mon, 12 Jan 2026"],
      clickable_td |-> [present |-> TRUE,
                        onclick |-> "window.open('https://10times.com/pharma-expo')"],
      venue |-> [present |-> TRUE, has_a |-> TRUE, a_text |-> BostonMA, text |-> BostonMA]],
     [date_td |-> [present |-> TRUE, text |-> "Mon, 12 Jan 2026"],
      clickable_td |-> NoClickable,
      venue |-> [present |-> TRUE, has_a |-> FALSE, a_text |-> <<>>, text |-> BostonMA]],
     [date_td |-> NoCell,
      clickable_td |-> [present |-> TRUE, onclick |-> "showEvent(42)"],
      venue |-> NoVenue]}

-----------------------------------------------------------------------------
(* validate_url, lines 61-67 *)

\* what requests.head does: a status code, or 0 for any exception
HeadOutcomes == {200, 301, 302, 404, 0}

validate_url(outcome) == outcome \in {200, 301, 302}

-----------------------------------------------------------------------------
(* extract_organizer_details, lines 74-141 *)

\* hrefs of the links of the pages
HrefAcme == "https://acme-pharma.org/about"
HrefMedsoc == "http://medsoc.org"
HrefMailto == "mailto:info@acme-pharma.org"
HrefRedirect == "/go?to=http:acme"
HrefContact == "/contact"
HrefAbout == "/about-us"
HrefBadIPv6 == "http://[acme"

\* href.startswith('mailto:')
StartsWithMailto(href) == href = HrefMailto

\* 'http' in href
ContainsHttp(href) == href \in {HrefAcme, HrefMedsoc, HrefRedirect, HrefBadIPv6}

\* href.split('//')[1].split('/')[0]; NoneVal stands for the IndexError of [1]
DomainSegment(href) ==
    CASE href = HrefAcme -> [value |-> "acme-pharma.org"]
      [] href = HrefMedsoc -> [value |-> "medsoc.org"]
      [] href = HrefBadIPv6 -> [value |-> "[acme"]
      [] OTHER -> NoneVal

\* urljoin(event_url, href) for an event_url on https://10times.com/;
\* NoneVal stands for the ValueError urlsplit raises on an unclosed bracket
urljoin(event_url, href) ==
    CASE href = HrefContact -> [value |-> "https://10times.com/contact"]
      [] href = HrefAbout -> [value |-> "https://10times.com/about-us"]
      [] href = HrefBadIPv6 -> NoneVal
      [] OTHER -> [value |-> href]

\* f'Error: {str(e)[:50]}' for the exceptions of the runs: a read timeout
\* and a 404 on an event page of 10times.com, the IndexError of line 109 and
\* the ValueError of line 129
ErrTimeout == "Error: HTTPSConnectionPool(host='10times.com', port=443):"
ErrHttp == "Error: 404 Client Error: Not Found for url: https://10tim"
ErrIndex == "Error: list index out of range"
ErrValue == "Error: Invalid IPv6 URL"
ErrorTags == {ErrTimeout, ErrHttp, ErrIndex, ErrValue}

\* lines 78-84
InitialInfo ==
    [organiser_name |-> NA, organiser_website |-> NA, organiser_email |-> NAs,
     contact_person |-> NA, verification_status |-> "Unverified"]

\* line 243
NoDetailsInfo ==
    [organiser_name |-> NA, organiser_website |-> NA, organiser_email |-> NAs,
     verification_status |-> "No_Details"]

(* Method 1, lines 94-111.  page.sections[kw] lists, for keyword kw, the text
   nodes matching it; a text node is given by the tags following its parent
   (find_next_siblings()), and a tag by its first <a> (element.find('a')).
   A scan result is the dict and whether an exception was raised. *)

organizer_keywords == <<"organizer", "organised by", "organiser", "hosted by", "presented by">>

\* lines 105-110 on a qualifying link: the website is assigned before the
\* name expression is evaluated
TakeLink(info, link) ==
    LET withSite == [info EXCEPT !.organiser_website = link.href]
    IN  IF link.text # ""
        THEN [info |-> [withSite EXCEPT !.organiser_name = link.text,
                                        !.verification_status = "Website_Found"],
              raised |-> FALSE]
        ELSE IF IsNone(DomainSegment(link.href))
             THEN [info |-> withSite, raised |-> TRUE]
             ELSE [info |-> [withSite EXCEPT
                                 !.organiser_name = DomainSegment(link.href).value,
                                 !.verification_status = "Website_Found"],
                   raised |-> FALSE]

\* line 105-107
Qualifies(element) ==
    /\ element.has_a
    /\ element.href # ""
    /\ ~StartsWithMailto(element.href)
    /\ ContainsHttp(element.href)

RECURSIVE ScanElements(_, _, _)
\* lines 103-111: for element in next_elements, from the n-th on; the break
\* of line 111 leaves this loop only
ScanElements(info, next_elements, n) ==
    IF n > Len(next_elements)
    THEN [info |-> info, raised |-> FALSE]
    ELSE IF Qualifies(next_elements[n])
         THEN TakeLink(info, next_elements[n])
         ELSE ScanElements(info, next_elements, n + 1)

RECURSIVE ScanSections(_, _, _)
\* lines 98-111: for section in sections[:2], from the n-th on
ScanSections(info, sections, n) ==
    IF n > Len(sections) \/ n > 2
    THEN [info |-> info, raised |-> FALSE]
    ELSE LET next_elements == SubSeq(sections[n], 1,
                                     IF Len(sections[n]) < 3 THEN Len(sections[n]) ELSE 3)
             r == ScanElements(info, next_elements, 1)
         IN  IF r.raised THEN r ELSE ScanSections(r.info, sections, n + 1)

RECURSIVE ScanKeywords(_, _, _)
\* lines 96-111: for keyword in organizer_keywords, from the n-th on
ScanKeywords(info, pg, n) ==
    IF n > Len(organizer_keywords)
    THEN [info |-> info, raised |-> FALSE]
    ELSE LET r == ScanSections(info, pg.sections[n], 1)
         IN  IF r.raised THEN r ELSE ScanKeywords(r.info, pg, n + 1)

Method1(info, pg) == ScanKeywords(info, pg, 1)

(* Method 2, lines 113-122.  page.emails is re.findall(email_pattern, str(soup)) *)

Chars_facebook == <<"f","a","c","e","b","o","o","k">>
Chars_twitter == <<"t","w","i","t","t","e","r">>
Chars_linkedin == <<"l","i","n","k","e","d","i","n">>
Chars_google == <<"g","o","o","g","l","e">>
Chars_youtube == <<"y","o","u","t","u","b","e">>
Blocklist == {Chars_facebook, Chars_twitter, Chars_linkedin, Chars_google, Chars_youtube}

\* Mutant: the fragments are compared without lower-casing the match.
Blocked_CaseSensitive(e) == \E x \in Blocklist : IsSubstring(x, e)

\* any(x in e.lower() for x in [...])
Blocked(e) == \E x \in Blocklist : IsSubstring(x, Lower(e))

\* line 119
filtered_emails(emails) == SelectSeq(emails, LAMBDA e : ~Blocked(e))

\* Mutant: a status set by Method 1 is kept (first success wins).
Method2_FirstWins(info, emails) ==
    IF emails # <<>> /\ filtered_emails(emails) # <<>>
    THEN [info EXCEPT !.organiser_email = filtered_emails(emails)[1],
                      !.verification_status =
                          IF info.verification_status = "Unverified"
                          THEN "Email_Found" ELSE info.verification_status]
    ELSE info

Method2(info, emails) ==
    IF emails # <<>> /\ filtered_emails(emails) # <<>>
    THEN [info EXCEPT !.organiser_email = filtered_emails(emails)[1],
                      !.verification_status = "Email_Found"]
    ELSE info

\* lines 137-139
Caught(info, tag) == [info EXCEPT !.verification_status = tag]

(* The event pages of a run *)

NoLinkTag == [has_a |-> FALSE, href |-> "", text |-> ""]
AcmeTag == [has_a |-> TRUE, href |-> HrefAcme, text |-> "Acme Pharma"]
MedsocTag == [has_a |-> TRUE, href |-> HrefMedsoc, text |-> ""]
MailtoTag == [has_a |-> TRUE, href |-> HrefMailto, text |-> "Mail us"]
RedirectTag == [has_a |-> TRUE, href |-> HrefRedirect, text |-> ""]

SectionsPool ==
    {<< <<>>, <<>>, <<>>, <<>>, <<>> >>,
     << << <<AcmeTag>> >>, <<>>, <<>>, <<>>, <<>> >>,
     << << <<RedirectTag>> >>, <<>>, <<>>, <<>>, <<>> >>,
     << << <<NoLinkTag, MailtoTag, AcmeTag>> >>, <<>>, <<>>, << <<MedsocTag>> >>, <<>> >>,
     << <<>>, << <<NoLinkTag, NoLinkTag, MailtoTag, AcmeTag>>, <<>>, <<MedsocTag>> >>,
        <<>>, <<>>, <<>> >>}

Email_fb == <<"i","@","f","a","c","e","b","o","o","k",".","c","o","m">>
Email_li == <<"X","@","L","i","n","k","e","d","I","n",".","c","o","m">>
Email_acme == <<"p","r","@","a","c","m","e",".","o","r","g">>
Email_pipe == <<"a","@","b",".","c","|","m">>

EmailsPool ==
    {<<>>, <<Email_li>>, <<Email_fb, Email_acme, Email_pipe>>, <<Email_pipe>>}

ContactPool ==
    {<<>>, <<HrefContact, HrefAbout, HrefAcme>>, <<HrefMailto, HrefBadIPv6>>}

Pages == [sections : SectionsPool, emails : EmailsPool, contact_links : ContactPool]

NoPage == [sections |-> << <<>>, <<>>, <<>>, <<>>, <<>> >>, emails |-> <<>>,
           contact_links |-> <<>>]

-----------------------------------------------------------------------------
(* dict and list helpers *)

\* {**a, **b}
DictMerge(a, b) ==
    [f \in (DOMAIN a) \cup (DOMAIN b) |-> IF f \in DOMAIN b THEN b[f] ELSE a[f]]

\* d.get(key, default)
Get(d, key, default) == IF key \in DOMAIN d THEN d[key] ELSE default

RECURSIVE Join(_)
\* ', '.join(notes)
Join(notes) ==
    IF notes = <<>> THEN ""
    ELSE IF Len(notes) = 1 THEN notes[1]
    ELSE notes[1] \o ", " \o Join(Tail(notes))

Min(a, b) == IF a < b THEN a ELSE b

\* lines 318-329
CsvRow(event) ==
    [Event_Name |-> Get(event, "event_name", NA),
     Date |-> Get(event, "event_date", NA),
     City |-> Get(event, "city", NAs),
     State |-> Get(event, "state", NAs),
     Organiser_Name |-> Get(event, "organiser_name", NA),
     Organiser_Website |-> Get(event, "organiser_website", NA),
     Organiser_Email |-> Get(event, "organiser_email", NAs),
     Event_Link |-> Get(event, "event_link", NA),
     Verification_Status |-> Get(event, "verification_status", NA),
     Validation_Notes |-> Get(event, "validation_notes", NA)]

\* content of a file: written by this run, left by an earlier run, or missing
NoFile == [writer |-> "nobody", lines |-> <<>>]
OldFile == [writer |-> "earlier run", lines |-> <<>>]
ThisRun(lines) == [writer |-> "this run", lines |-> lines]

-----------------------------------------------------------------------------
(* A run of the program: the main block, lines 371-406, calling
   scrape_10times_medical_pharma, lines 200-300 *)

InitRun ==
    /\ pc = "main"
    /\ listing_status = "pending"
    /\ nCards = 0
    /\ i = 0
    /\ card = NoCard
    /\ event_data = NoneVal
    /\ page = NoPage
    /\ organizer_info = NoDetailsInfo
    /\ k = 0
    /\ validation_notes = <<>>
    /\ scraped_data = <<>>
    /\ validation_log = <<>>
    /\ organizer_data = <<>>
    /\ \E f \in {NoFile, OldFile} : csvFile = f /\ logFile = f
    /\ nDetailFetch = 0
    /\ nProbes = 0
    /\ contact_probes = <<>>
    /\ clock = 0
    /\ lastFetch = -1
    /\ visited = <<>>
    /\ raisedAt = {}
    /\ email = <<>>
    /\ result = FALSE

ioVars == <<csvFile, logFile>>
netVars == <<nDetailFetch, nProbes, contact_probes, clock, lastFetch>>
loopVars == <<nCards, i, card, visited>>
pureVars == <<email, result>>

\* The locals of the loop body are assigned before they are read in the
\* next iteration (lines 227, 232, 243, 252); their old values are dropped
\* when an iteration ends.
DropLocals ==
    /\ card' = NoCard
    /\ event_data' = NoneVal
    /\ organizer_info' = NoDetailsInfo
    /\ k' = 0
    /\ validation_notes' = <<>>

\* lines 212-225 and 293-300.  outcome: the listing fetch succeeds, times out,
\* answers with an error status, or its parsing raises; found: number of rows
\* of class event-card
ListingOutcomes == {"ok", "timeout", "http_error", "parse_error"}

\* Mutant: line 215 (raise_for_status) is missing, so that an error page is
\* parsed like a listing.
Listing_IgnoresStatus(outcome, found) ==
    IF outcome \in {"ok", "http_error"}
    THEN /\ nCards' = Min(found, EVENTS_TO_SCRAPE)
         /\ i' = 1
         /\ scraped_data' = <<>>
         /\ validation_log' = <<>>
         /\ pc' = "loop"
         /\ UNCHANGED organizer_data
    ELSE /\ organizer_data' = <<>>
         /\ pc' = "main_check"
         /\ UNCHANGED <<nCards, i, scraped_data, validation_log>>

\* lines 214-225 when the fetch succeeded, lines 293-300 when it raised
Listing(outcome, found) ==
    IF outcome = "ok"
    THEN /\ nCards' = Min(found, EVENTS_TO_SCRAPE)
         /\ i' = 1
         /\ scraped_data' = <<>>
         /\ validation_log' = <<>>
         /\ pc' = "loop"
         /\ UNCHANGED organizer_data
    ELSE /\ organizer_data' = <<>>
         /\ pc' = "main_check"
         /\ UNCHANGED <<nCards, i, scraped_data, validation_log>>

FetchListing ==
    /\ pc = "main"
    /\ \E outcome \in ListingOutcomes, found \in 0..MaxCards :
         /\ listing_status' = outcome
         /\ Listing(outcome, found)
    /\ UNCHANGED <<card, event_data, page, organizer_info, k, validation_notes,
                   visited, raisedAt>>
    /\ UNCHANGED <<ioVars, netVars, pureVars>>

\* line 227: the next card of event_cards
LoopEnter ==
    /\ pc = "loop" /\ i <= nCards
    /\ \E c \in RunCards : card' = c
    /\ visited' = Append(visited, i)
    /\ pc' = "parse_card"
    /\ UNCHANGED <<nCards, i, event_data, page, organizer_info, k, validation_notes,
                   scraped_data, validation_log, organizer_data, raisedAt>>
    /\ UNCHANGED <<ioVars, netVars, pureVars, listing_status>>

\* line 227: event_cards is exhausted
LoopExit ==
    /\ pc = "loop" /\ i > nCards
    /\ pc' = "write_log"
    /\ UNCHANGED <<loopVars, event_data, page, organizer_info, k, validation_notes,
                   scraped_data, validation_log, organizer_data, raisedAt>>
    /\ UNCHANGED <<ioVars, netVars, pureVars, listing_status>>

\* line 232
ParseCard ==
    /\ pc = "parse_card"
    /\ \E raises \in BOOLEAN :
         /\ event_data' = extract_event_data_from_card(card, raises)
         /\ raisedAt' = IF raises THEN raisedAt \cup {i} ELSE raisedAt
    /\ pc' = "check_card"
    /\ UNCHANGED <<loopVars, page, organizer_info, k, validation_notes,
                   scraped_data, validation_log, organizer_data>>
    /\ UNCHANGED <<ioVars, netVars, pureVars, listing_status>>

\* Mutant: line 234 tests only for None.
Unusable_OnlyNone(ed) == IsNone(ed)

\* line 234
Unusable(ed) == IF IsNone(ed) THEN TRUE ELSE ed.event_name = NA

\* lines 234-236: continue
SkipCard ==
    /\ pc = "check_card"
    /\ Unusable(event_data)
    /\ i' = i + 1
    /\ pc' = "loop"
    /\ DropLocals
    /\ UNCHANGED <<nCards, visited, page, scraped_data, validation_log,
                   organizer_data, raisedAt>>
    /\ UNCHANGED <<ioVars, netVars, pureVars, listing_status>>

\* lines 243-246: the default dict, then the call when there is a link
UseCard ==
    /\ pc = "check_card"
    /\ ~Unusable(event_data)
    /\ organizer_info' = NoDetailsInfo
    /\ pc' = IF event_data.event_link # NA THEN "fetch_detail" ELSE "validate"
    /\ UNCHANGED <<loopVars, event_data, page, k, validation_notes,
                   scraped_data, validation_log, organizer_data, raisedAt>>
    /\ UNCHANGED <<ioVars, netVars, pureVars, listing_status>>

\* lines 78-92: the fetch and the parse of the event page succeed
FetchDetailOk ==
    /\ pc = "fetch_detail"
    /\ \E pg \in Pages : page' = pg
    /\ organizer_info' = InitialInfo
    /\ nDetailFetch' = nDetailFetch + 1
    /\ lastFetch' = clock
    /\ pc' = "method1"
    /\ UNCHANGED <<loopVars, event_data, k, validation_notes, scraped_data,
                   validation_log, organizer_data, raisedAt>>
    /\ UNCHANGED <<ioVars, nProbes, contact_probes, clock, pureVars, listing_status>>

\* lines 89-90 raise, lines 137-141
FetchDetailFails ==
    /\ pc = "fetch_detail"
    /\ \E tag \in {ErrTimeout, ErrHttp} :
         organizer_info' = Caught(InitialInfo, tag)
    /\ nDetailFetch' = nDetailFetch + 1
    /\ lastFetch' = clock
    /\ raisedAt' = raisedAt \cup {i}
    /\ pc' = "validate"
    /\ UNCHANGED <<loopVars, event_data, page, k, validation_notes, scraped_data,
                   validation_log, organizer_data>>
    /\ UNCHANGED <<ioVars, nProbes, contact_probes, clock, pureVars, listing_status>>

\* lines 94-111, and lines 137-141 when line 109 raises
DoMethod1 ==
    /\ pc = "method1"
    /\ LET r == Method1(organizer_info, page)
       IN  /\ organizer_info' = IF r.raised THEN Caught(r.info, ErrIndex) ELSE r.info
           /\ raisedAt' = IF r.raised THEN raisedAt \cup {i} ELSE raisedAt
           /\ pc' = IF r.raised THEN "validate" ELSE "method2"
           /\ page' = IF r.raised THEN NoPage ELSE page
    /\ UNCHANGED <<loopVars, event_data, k, validation_notes, scraped_data,
                   validation_log, organizer_data>>
    /\ UNCHANGED <<ioVars, netVars, pureVars, listing_status>>

\* lines 113-125
DoMethod2 ==
    /\ pc = "method2"
    /\ organizer_info' = Method2(organizer_info, page.emails)
    /\ k' = 1
    /\ pc' = "method3"
    /\ UNCHANGED <<loopVars, event_data, page, validation_notes, scraped_data,
                   validation_log, organizer_data, raisedAt>>
    /\ UNCHANGED <<ioVars, netVars, pureVars, listing_status>>

\* Mutant: the loop of line 126 runs over every matching link.
contact_links_Uncapped == page.contact_links

\* line 126: contact_links[:2]
contact_links == SubSeq(page.contact_links, 1, Min(2, Len(page.contact_links)))

\* line 128
Probeable(href) == href # "" /\ ~StartsWithMailto(href)

\* line 126: the links are exhausted
Method3Done ==
    /\ pc = "method3"
    /\ k > Len(contact_links)
    /\ pc' = "sleep"
    /\ UNCHANGED <<loopVars, event_data, page, organizer_info, k, validation_notes,
                   scraped_data, validation_log, organizer_data, raisedAt>>
    /\ UNCHANGED <<ioVars, netVars, pureVars, listing_status>>

\* lines 127-128: a link that is not probed
Method3Skip ==
    /\ pc = "method3"
    /\ k <= Len(contact_links)
    /\ ~Probeable(contact_links[k])
    /\ k' = k + 1
    /\ UNCHANGED pc
    /\ UNCHANGED <<loopVars, event_data, page, organizer_info, validation_notes,
                   scraped_data, validation_log, organizer_data, raisedAt>>
    /\ UNCHANGED <<ioVars, netVars, pureVars, listing_status>>

\* line 129 raises, lines 137-141
Method3Raises ==
    /\ pc = "method3"
    /\ k <= Len(contact_links)
    /\ Probeable(contact_links[k])
    /\ IsNone(urljoin(event_data.event_link, contact_links[k]))
    /\ organizer_info' = Caught(organizer_info, ErrValue)
    /\ raisedAt' = raisedAt \cup {i}
    /\ page' = NoPage
    /\ contact_probes' = <<>>
    /\ pc' = "validate"
    /\ UNCHANGED <<loopVars, event_data, k, validation_notes, scraped_data,
                   validation_log, organizer_data>>
    /\ UNCHANGED <<ioVars, nDetailFetch, nProbes, clock, lastFetch, pureVars,
                   listing_status>>

\* Mutant: a live contact page is recorded in the status only.
Method3Take_StatusOnly(info, full_url, alive) ==
    IF alive
    THEN [info EXCEPT !.verification_status = "Contact_Page_Found"]
    ELSE info

\* lines 130-132 on the outcome of the liveness probe
Method3Take(info, full_url, alive) ==
    IF alive
    THEN [info EXCEPT !.organiser_website = full_url,
                      !.verification_status = "Contact_Page_Found"]
    ELSE info

\* lines 129-133: the liveness probe of a contact link
Method3Probe ==
    /\ pc = "method3"
    /\ k <= Len(contact_links)
    /\ Probeable(contact_links[k])
    /\ ~IsNone(urljoin(event_data.event_link, contact_links[k]))
    /\ \E outcome \in HeadOutcomes :
         LET full_url == urljoin(event_data.event_link, contact_links[k]).value
             alive == validate_url(outcome)
         IN  /\ organizer_info' = Method3Take(organizer_info, full_url, alive)
             /\ k' = IF alive THEN k ELSE k + 1
             /\ pc' = IF alive THEN "sleep" ELSE "method3"
             /\ contact_probes' =
                    Append(contact_probes, [url |-> full_url, alive |-> alive])
    /\ nProbes' = nProbes + 1
    /\ UNCHANGED <<loopVars, event_data, page, validation_notes, scraped_data,
                   validation_log, organizer_data, raisedAt>>
    /\ UNCHANGED <<ioVars, nDetailFetch, clock, lastFetch, pureVars, listing_status>>

\* lines 135 and 141
Sleep ==
    /\ pc = "sleep"
    /\ clock' = clock + REQUEST_DELAY
    /\ page' = NoPage
    /\ contact_probes' = <<>>
    /\ pc' = "validate"
    /\ UNCHANGED <<loopVars, event_data, organizer_info, k, validation_notes,
                   scraped_data, validation_log, organizer_data, raisedAt>>
    /\ UNCHANGED <<ioVars, nDetailFetch, nProbes, lastFetch, pureVars, listing_status>>

\* lines 259-263
EmailNotes(info) ==
    IF info.organiser_email # NAs
    THEN IF validate_email_format(info.organiser_email)
         THEN <<"Email_Format_Valid">>
         ELSE <<"Email_Format_Invalid">>
    ELSE <<>>

\* lines 253-257 on the outcome of the liveness probe
SiteNotes(alive) == IF alive THEN <<"Website_Valid">> ELSE <<"Website_Invalid">>

\* lines 252-263 for a record with a website
ValidateSite ==
    /\ pc = "validate"
    /\ organizer_info.organiser_website # NA
    /\ \E outcome \in HeadOutcomes :
         validation_notes' = SiteNotes(validate_url(outcome)) \o EmailNotes(organizer_info)
    /\ nProbes' = nProbes + 1
    /\ pc' = "append"
    /\ UNCHANGED <<loopVars, event_data, page, organizer_info, k, scraped_data,
                   validation_log, organizer_data, raisedAt>>
    /\ UNCHANGED <<ioVars, nDetailFetch, contact_probes, clock, lastFetch, pureVars,
                   listing_status>>

\* lines 252-263 for a record without a website
ValidateNoSite ==
    /\ pc = "validate"
    /\ organizer_info.organiser_website = NA
    /\ validation_notes' = EmailNotes(organizer_info)
    /\ pc' = "append"
    /\ UNCHANGED <<loopVars, event_data, page, organizer_info, k, scraped_data,
                   validation_log, organizer_data, raisedAt>>
    /\ UNCHANGED <<ioVars, netVars, pureVars, listing_status>>

\* Mutant: the loop body has no try block, so that the exception reaches the
\* handler of line 298, which returns [].
ExceptEvent_Escapes ==
    /\ pc = "validate"
    /\ raisedAt' = raisedAt \cup {i}
    /\ organizer_data' = <<>>
    /\ pc' = "main_check"
    /\ UNCHANGED <<loopVars, event_data, page, organizer_info, k, validation_notes,
                   scraped_data, validation_log>>
    /\ UNCHANGED <<ioVars, netVars, pureVars, listing_status>>

\* lines 275-277: a statement of lines 249-273 raises some Exception
\* (a MemoryError, say); the handler continues with the next card
ExceptEvent ==
    /\ pc = "validate"
    /\ raisedAt' = raisedAt \cup {i}
    /\ i' = i + 1
    /\ pc' = "loop"
    /\ DropLocals
    /\ UNCHANGED <<nCards, visited, page, scraped_data, validation_log,
                   organizer_data>>
    /\ UNCHANGED <<ioVars, netVars, pureVars, listing_status>>

\* lines 249 and 265
combined_data(ed, info, notes) ==
    DictMerge(DictMerge(ed, info), [validation_notes |-> Join(notes)])

\* line 270
log_entry(n, ed, info, notes) ==
    [index |-> n, name |-> ed.event_name, status |-> info.verification_status,
     notes |-> Join(notes)]

\* lines 265-273
AppendRecord ==
    /\ pc = "append"
    /\ scraped_data' =
           Append(scraped_data, combined_data(event_data, organizer_info, validation_notes))
    /\ validation_log' =
           Append(validation_log, log_entry(i, event_data, organizer_info, validation_notes))
    /\ i' = i + 1
    /\ pc' = "loop"
    /\ DropLocals
    /\ UNCHANGED <<nCards, visited, page, organizer_data, raisedAt>>
    /\ UNCHANGED <<ioVars, netVars, pureVars, listing_status>>

\* lines 279-291
WriteLog ==
    /\ pc = "write_log"
    /\ logFile' = ThisRun(<<[total |-> Len(scraped_data)]>> \o validation_log)
    /\ organizer_data' = scraped_data
    /\ pc' = "main_check"
    /\ UNCHANGED <<loopVars, event_data, page, organizer_info, k, validation_notes,
                   scraped_data, validation_log, raisedAt>>
    /\ UNCHANGED <<csvFile, netVars, pureVars, listing_status>>

\* line 384: a non-empty list is truthy
HasData(data) == data # <<>>

MainCheck ==
    /\ pc = "main_check"
    /\ pc' = IF HasData(organizer_data) THEN "save_csv" ELSE "finished"
    /\ UNCHANGED <<loopVars, event_data, page, organizer_info, k, validation_notes,
                   scraped_data, validation_log, organizer_data, raisedAt>>
    /\ UNCHANGED <<ioVars, netVars, pureVars, listing_status>>

\* Mutant: line 333 opens the file for appending.
save_to_csv_with_validation_Appends(data, file) ==
    IF data = <<>>
    THEN file
    ELSE [writer |-> file.writer,
          lines |-> file.lines \o [n \in 1..Len(data) |-> CsvRow(data[n])]]

\* lines 302-336: the content of OUTPUT_CSV after the call
save_to_csv_with_validation(data, file) ==
    IF data = <<>>
    THEN file
    ELSE ThisRun([n \in 1..Len(data) |-> CsvRow(data[n])])

\* line 386
SaveCsv ==
    /\ pc = "save_csv"
    /\ csvFile' = save_to_csv_with_validation(organizer_data, csvFile)
    /\ pc' = "finished"
    /\ UNCHANGED <<loopVars, event_data, page, organizer_info, k, validation_notes,
                   scraped_data, validation_log, organizer_data, raisedAt>>
    /\ UNCHANGED <<logFile, netVars, pureVars, listing_status>>

-----------------------------------------------------------------------------
(* extract_event_data_from_card called on any card: line 232 alone *)

InitCard ==
    /\ pc = "parse_card"
    /\ listing_status = "ok"
    /\ card \in AllCards
    /\ nCards = 1
    /\ i = 1
    /\ event_data = NoneVal
    /\ page = NoPage
    /\ organizer_info = NoDetailsInfo
    /\ k = 0
    /\ validation_notes = <<>>
    /\ scraped_data = <<>>
    /\ validation_log = <<>>
    /\ organizer_data = <<>>
    /\ csvFile = NoFile
    /\ logFile = NoFile
    /\ nDetailFetch = 0
    /\ nProbes = 0
    /\ contact_probes = <<>>
    /\ clock = 0
    /\ lastFetch = -1
    /\ visited = <<1>>
    /\ raisedAt = {}
    /\ email = <<>>
    /\ result = FALSE

SpecCard == InitCard /\ [][ParseCard]_vars

-----------------------------------------------------------------------------
(* validate_email_format called on any string: lines 69-72 alone *)

EmailAlphabet == {"a", "1", "@", ".", "\n"}

InitEmail ==
    /\ pc = "call_validate_email_format"
    /\ listing_status = "pending"
    /\ email \in SeqsUpTo(EmailAlphabet, MaxEmailLen)
    /\ result = FALSE
    /\ card = NoCard
    /\ nCards = 0
    /\ i = 0
    /\ event_data = NoneVal
    /\ page = NoPage
    /\ organizer_info = NoDetailsInfo
    /\ k = 0
    /\ validation_notes = <<>>
    /\ scraped_data = <<>>
    /\ validation_log = <<>>
    /\ organizer_data = <<>>
    /\ csvFile = NoFile
    /\ logFile = NoFile
    /\ nDetailFetch = 0
    /\ nProbes = 0
    /\ contact_probes = <<>>
    /\ clock = 0
    /\ lastFetch = -1
    /\ visited = <<>>
    /\ raisedAt = {}

CallValidateEmail ==
    /\ pc = "call_validate_email_format"
    /\ result' = validate_email_format(email)
    /\ pc' = "returned"
    /\ UNCHANGED <<loopVars, event_data, page, organizer_info, k, validation_notes,
                   scraped_data, validation_log, organizer_data, raisedAt, email>>
    /\ UNCHANGED <<ioVars, netVars, listing_status>>

SpecEmail == InitEmail /\ [][CallValidateEmail]_vars

-----------------------------------------------------------------------------

Init == InitRun

Next ==
    \/ FetchListing
    \/ LoopEnter
    \/ LoopExit
    \/ ParseCard
    \/ SkipCard
    \/ UseCard
    \/ FetchDetailOk
    \/ FetchDetailFails
    \/ DoMethod1
    \/ DoMethod2
    \/ Method3Done
    \/ Method3Skip
    \/ Method3Raises
    \/ Method3Probe
    \/ Sleep
    \/ ValidateSite
    \/ ValidateNoSite
    \/ ExceptEvent
    \/ AppendRecord
    \/ WriteLog
    \/ MainCheck
    \/ SaveCsv

Spec == Init /\ [][Next]_vars

-----------------------------------------------------------------------------
(* Properties *)

RunPositions ==
    {"main", "loop", "parse_card", "check_card", "fetch_detail", "method1",
     "method2", "method3", "sleep", "validate", "append", "write_log",
     "main_check", "save_csv", "finished"}
AfterLoop == {"write_log", "main_check", "save_csv", "finished"}
AfterReturn == {"main_check", "save_csv", "finished"}
ListingFailed == listing_status \notin {"pending", "ok"}

OrganizerFieldsAreNA(d) ==
    /\ d.organiser_name = NA
    /\ d.organiser_website = NA
    /\ d.organiser_email = NAs

\* C1: in a run whose listing was fetched, the loop enters the capped cards
\* 1, 2, ..., nCards in that order whatever exceptions are raised on the
\* way: an exception caught while processing card j leaves the loop on card
\* j or takes it to card j+1, the program stays at positions of the program
\* (no exception leaves the loop body), the loop ends having entered all
\* nCards cards, one log entry stands for each record in increasing card
\* order, and the function returns the records collected.
C1_LoopSurvivesExceptions ==
    /\ pc \in RunPositions
    /\ visited = [n \in 1..Len(visited) |-> n]
    /\ Len(visited) <= nCards
    /\ raisedAt \subseteq 1..Len(visited)
    /\ \A j \in raisedAt :
           j < nCards => \/ j + 1 <= Len(visited)
                         \/ i = j
                         \/ i = j + 1 /\ pc = "loop"
    /\ (listing_status = "ok" /\ pc \in AfterLoop) => Len(visited) = nCards
    /\ Len(validation_log) = Len(scraped_data)
    /\ \A n \in 1..Len(validation_log) :
           /\ validation_log[n].index \in 1..Len(visited)
           /\ \A m \in 1..(n - 1) : validation_log[m].index < validation_log[n].index
    /\ (listing_status = "ok" /\ pc \in AfterReturn) => organizer_data = scraped_data

\* C1 witness: of two cards the first raised in the loop body and left no
\* record, the second was processed, and its record was returned.
C1_Witness ==
    /\ pc = "finished"
    /\ nCards = 2
    /\ 1 \in raisedAt
    /\ Len(organizer_data) = 1
    /\ validation_log[1].index = 2

\* C2 (as claimed): whenever extract_organizer_details has caught an
\* exception, and in every emitted record, an error-tagged
\* verification_status comes with organiser_name, organiser_website and
\* organiser_email all 'N/A'.
C2_ErrorImpliesSentinels ==
    /\ (pc = "validate" /\ organizer_info.verification_status \in ErrorTags)
           => OrganizerFieldsAreNA(organizer_info)
    /\ \A n \in 1..Len(scraped_data) :
           scraped_data[n].verification_status \in ErrorTags
               => OrganizerFieldsAreNA(scraped_data[n])

\* C3: once the listing fetch has failed, the program is at the check of
\* line 384 or at its end and can always take the step to its end; no event
\* page was fetched, no liveness probe issued, no card visited, the function
\* returned the empty list, and neither output file was written by this run.
C3_ListingFailureAborts ==
    ListingFailed =>
        /\ pc \in {"main_check", "finished"}
        /\ pc = "main_check" => ENABLED MainCheck
        /\ nDetailFetch = 0
        /\ nProbes = 0
        /\ visited = <<>>
        /\ organizer_data = <<>>
        /\ csvFile \in {NoFile, OldFile}
        /\ logFile \in {NoFile, OldFile}

\* C3 witness: the program has ended after a listing fetch that timed out,
\* with both files of the earlier run still in place.
C3_Witness ==
    /\ pc = "finished"
    /\ listing_status = "timeout"
    /\ csvFile = OldFile
    /\ logFile = OldFile

\* C4 (as claimed): every run ends with both output files written by this
\* run.
C4_BothFilesAlwaysOverwritten ==
    pc = "finished" => csvFile.writer = "this run" /\ logFile.writer = "this run"

\* C4 (amended): a run that collected at least one record ends with both
\* files holding this run's content only (one dataset row per record, the
\* log's banner and one line per record); a run whose listing was fetched
\* but that collected no record ends with the log written by this run and
\* the dataset file as it was; a run whose listing fetch failed ends with
\* both files as they were.
C4_FilesPerOutcome ==
    pc = "finished" =>
        /\ organizer_data # <<>> =>
               /\ csvFile = ThisRun([n \in 1..Len(organizer_data) |->
                                        CsvRow(organizer_data[n])])
               /\ logFile = ThisRun(<<[total |-> Len(organizer_data)]>> \o validation_log)
        /\ (listing_status = "ok" /\ organizer_data = <<>>) =>
               /\ logFile = ThisRun(<<[total |-> 0]>>)
               /\ csvFile \in {NoFile, OldFile}
        /\ ListingFailed =>
               /\ csvFile \in {NoFile, OldFile}
               /\ logFile \in {NoFile, OldFile}

\* C4 witness: a run over files of an earlier run has ended with two records
\* and both files rewritten.
C4_Witness ==
    /\ pc = "finished"
    /\ Len(organizer_data) = 2
    /\ csvFile.writer = "this run"
    /\ Len(csvFile.lines) = 2
    /\ logFile.writer = "this run"

TextFields ==
    {"event_name", "event_date", "organiser_name", "organiser_website",
     "event_link", "verification_status", "validation_notes"}
CharFields == {"city", "state", "organiser_email"}
CsvTextColumns ==
    {"Event_Name", "Date", "Organiser_Name", "Organiser_Website", "Event_Link",
     "Verification_Status", "Validation_Notes"}
CsvCharColumns == {"City", "State", "Organiser_Email"}

\* C5 (as claimed): every record of the result list, and every dataset row
\* built from it, has all ten fields, none of them empty: a field that was
\* not resolved, validation_notes included, holds 'N/A'.
C5_TenFieldsNeverEmpty ==
    /\ \A n \in 1..Len(scraped_data) :
           /\ TextFields \cup CharFields \subseteq DOMAIN scraped_data[n]
           /\ \A f \in TextFields : scraped_data[n][f] # ""
           /\ \A f \in CharFields : scraped_data[n][f] # <<>>
    /\ csvFile.writer = "this run" =>
           \A n \in 1..Len(csvFile.lines) :
               /\ DOMAIN csvFile.lines[n] = CsvTextColumns \cup CsvCharColumns
               /\ \A f \in CsvTextColumns : csvFile.lines[n][f] # ""
               /\ \A f \in CsvCharColumns : csvFile.lines[n][f] # <<>>

\* the card has no clickable cell, or its click handler holds no URL pattern
CardHasNoUrl(c) ==
    IF c.clickable_td.present THEN IsNone(url_match(c.clickable_td.onclick)) ELSE TRUE

\* C6: for a card without a clickable cell or without a URL in its click
\* handler the parser, unless an exception interrupts it, yields event_link
\* and event_name 'N/A'; and from the parsing of such a card to the end of
\* its iteration the driver fetches no event page, issues no liveness probe,
\* appends no record and no log line, and its step after the parse takes the
\* loop to the next card.
C6_CardWithoutUrlIsSkipped ==
    /\ [](/\ pc = "check_card"
          /\ CardHasNoUrl(card)
          /\ ~IsNone(event_data)
          => event_data.event_link = NA /\ event_data.event_name = NA)
    /\ [][(pc \in {"parse_card", "check_card"} /\ CardHasNoUrl(card))
          => /\ UNCHANGED <<nDetailFetch, nProbes, scraped_data, validation_log>>
             /\ pc = "check_card" => (pc' = "loop" /\ i' = i + 1)]_vars

\* C6 witness: of two cards the first was skipped without any exception and
\* without any request, the second gave the only record.
C6_Witness ==
    /\ pc = "append"
    /\ i = 2
    /\ raisedAt = {}
    /\ scraped_data = <<>>
    /\ nDetailFetch = 1

\* the text the parser reads from a venue div
VenueTextRead(c) == IF c.venue.has_a THEN c.venue.a_text ELSE c.venue.text

FirstComma(s) == CHOOSE n \in 1..Len(s) : s[n] = "," /\ \A m \in 1..(n - 1) : s[m] # ","
LastComma(s) == CHOOSE n \in 1..Len(s) : s[n] = "," /\ \A m \in (n + 1)..Len(s) : s[m] # ","

\* C7 (as claimed): for every venue text read (the sub-link's text, or the
\* venue element's own text when it has no sub-link), a text with a comma
\* gives city = the trimmed part before the first comma and state = the
\* trimmed part after the last comma; a text without comma gives city =
\* the text and state = 'N/A'; an absent venue element gives 'N/A' twice.
C7_CityStateOfVenueText ==
    (pc = "check_card" /\ ~IsNone(event_data)) =>
        IF ~card.venue.present
        THEN event_data.city = NAs /\ event_data.state = NAs
        ELSE LET t == VenueTextRead(card)
             IN  IF HasChar(t, ",")
                 THEN /\ event_data.city = Strip(SubSeq(t, 1, FirstComma(t) - 1))
                      /\ event_data.state = Strip(SubSeq(t, LastComma(t) + 1, Len(t)))
                 ELSE /\ event_data.city = t
                      /\ event_data.state = NAs

\* e holds a fragment of the blocklist, letter case ignored
HoldsBlockedFragment(e) ==
    \E frag \in Blocklist : \E n \in 0..(Len(e) - Len(frag)) :
        \A j \in 1..Len(frag) : LowerChar(e[n + j]) = frag[j]

\* C8: Method 2 sets organiser_email to the first match, in order of
\* appearance, that holds no blocklisted fragment (case ignored) and
\* verification_status to 'Email_Found', leaving the other fields; when
\* there is no match or every match is blocklisted it leaves the dict as
\* it is.
C8_FirstUnblockedEmail ==
    [][pc = "method2" =>
          LET emails == page.emails
              survivors == {n \in 1..Len(emails) : ~HoldsBlockedFragment(emails[n])}
          IN  IF survivors # {}
              THEN LET first == CHOOSE n \in survivors : \A m \in survivors : n <= m
                   IN  organizer_info' =
                           [organizer_info EXCEPT !.organiser_email = emails[first],
                                                  !.verification_status = "Email_Found"]
              ELSE organizer_info' = organizer_info]_vars

\* C8 witness: Method 2 has passed over a blocklisted first match, taken the
\* second, and replaced the status Method 1 had set.
C8_Witness ==
    /\ pc = "method3"
    /\ k = 1
    /\ page.emails = <<Email_fb, Email_acme, Email_pipe>>
    /\ organizer_info.organiser_email = Email_acme
    /\ organizer_info.organiser_website = HrefAcme
    /\ organizer_info.verification_status = "Email_Found"

\* s has the shape local@domain.tld: a non-empty local part of LocalClass, a
\* non-empty domain of DomainClass, a dot, and 2 or more letters
HasEmailShape(s) ==
    \E at \in 1..Len(s) : \E dot \in 1..Len(s) :
        /\ s[at] = "@" /\ s[dot] = "."
        /\ 1 < at /\ at + 1 < dot /\ dot + 2 <= Len(s)
        /\ AllIn(SubSeq(s, 1, at - 1), LocalClass)
        /\ AllIn(SubSeq(s, at + 1, dot - 1), DomainClass)
        /\ AllIn(SubSeq(s, dot + 1, Len(s)), Letters)

\* s ends with a dot followed by 2 or more letters and nothing else
HasTldSegment(s) ==
    \E dot \in 1..Len(s) :
        /\ s[dot] = "."
        /\ dot + 2 <= Len(s)
        /\ AllIn(SubSeq(s, dot + 1, Len(s)), Letters)

\* C9 (as claimed): validate_email_format returns true for every string of
\* the shape local@domain.tld and false for every string without '@' or
\* without a final segment of 2 or more letters.
C9_EmailFormat ==
    pc = "returned" =>
        /\ HasEmailShape(email) => result
        /\ (~HasChar(email, "@") \/ ~HasTldSegment(email)) => ~result

\* C10 (as claimed): every fetch of an event page after the first is issued
\* at least REQUEST_DELAY seconds after the fetch before it.
C10_DelayBetweenFetches ==
    [][nDetailFetch' > nDetailFetch =>
          (lastFetch = -1 \/ clock - lastFetch >= REQUEST_DELAY)]_vars

\* the places Method 1 is said to examine: keyword, text match (first two),
\* following sibling (first three)
ExaminedPlaces(pg) ==
    {p \in (1..Len(organizer_keywords)) \X (1..2) \X (1..3) :
        /\ p[2] <= Len(pg.sections[p[1]])
        /\ p[3] <= Len(pg.sections[p[1]][p[2]])}

ElementAt(pg, p) == pg.sections[p[1]][p[2]][p[3]]

\* the examined places whose link is not a mail-link and contains 'http'
QualifyingPlaces(pg) == {p \in ExaminedPlaces(pg) : Qualifies(ElementAt(pg, p))}

\* p is examined before q
ExaminedBefore(p, q) ==
    \/ p[1] < q[1]
    \/ p[1] = q[1] /\ p[2] < q[2]
    \/ p[1] = q[1] /\ p[2] = q[2] /\ p[3] < q[3]

FirstQualifyingPlace(pg) ==
    CHOOSE p \in QualifyingPlaces(pg) :
        \A q \in QualifyingPlaces(pg) : q = p \/ ExaminedBefore(p, q)

\* the name Method 1 gives a link: its text, else the domain segment of its href
NameOfLink(link) ==
    IF link.text # "" THEN link.text
    ELSE IF IsNone(DomainSegment(link.href)) THEN NA
    ELSE DomainSegment(link.href).value

\* C11 (as claimed): when Method 1 has returned and a qualifying link exists
\* among the places it examines, organiser_website and organiser_name are
\* those of the first qualifying link in the order keyword, text match,
\* sibling: no later sibling, match or keyword changes them.
C11_StopsAtFirstQualifyingLink ==
    (pc = "method2" /\ QualifyingPlaces(page) # {}) =>
        LET link == ElementAt(page, FirstQualifyingPlace(page))
        IN  /\ organizer_info.organiser_website = link.href
            /\ organizer_info.organiser_name = NameOfLink(link)

HeuristicTags == {"Website_Found", "Email_Found", "Contact_Page_Found"}

\* Method 1 succeeds on the page: a qualifying link is among the examined places
SucceededA(pg) == QualifyingPlaces(pg) # {}

\* Method 2 succeeds on the page: some match holds no blocklisted fragment
SucceededB(pg) == \E n \in 1..Len(pg.emails) : ~HoldsBlockedFragment(pg.emails[n])

\* Method 3 succeeded: one of its liveness probes returned True
SucceededC == \E n \in 1..Len(contact_probes) : contact_probes[n].alive

\* C12: the extraction reaches its end (the sleep of line 135) only through
\* Method 1, then Method 2, then Method 3, Method 2 being followed by Method 3
\* whatever it found; and at that end verification_status is
\* 'Contact_Page_Found' if Method 3 succeeded, otherwise 'Email_Found' if
\* Method 2 succeeded, otherwise 'Website_Found' if Method 1 succeeded, and
\* none of the three tags if none succeeded.
C12_LastSuccessfulHeuristicWins ==
    /\ [][/\ (pc' = "method2" /\ pc # "method2") => pc = "method1"
          /\ (pc' = "method3" /\ pc # "method3") => pc = "method2"
          /\ (pc' = "sleep" /\ pc # "sleep") => pc = "method3"
          /\ pc = "method2" => pc' = "method3"]_vars
    /\ [](pc = "sleep" =>
             LET status == organizer_info.verification_status
             IN  IF SucceededC THEN status = "Contact_Page_Found"
                 ELSE IF SucceededB(page) THEN status = "Email_Found"
                 ELSE IF SucceededA(page) THEN status = "Website_Found"
                 ELSE status \notin HeuristicTags)

\* C12 witness: Methods 1 and 2 both succeeded, Method 3 probed two links
\* without success, and the extraction ends with the tag of Method 2.
C12_Witness ==
    /\ pc = "sleep"
    /\ SucceededA(page) /\ SucceededB(page) /\ ~SucceededC
    /\ Len(contact_probes) = 2
    /\ organizer_info.organiser_website = HrefAcme
    /\ organizer_info.verification_status = "Email_Found"

\* a step of Method 3 in which a liveness probe is issued and succeeds
ProbeSucceeds ==
    /\ pc = "method3"
    /\ Len(contact_probes') = Len(contact_probes) + 1
    /\ contact_probes'[Len(contact_probes')].alive

\* the probes Method 3 has issued are at most two, they went to the resolved
\* URLs of links among the first two matching links, in document order, and
\* none follows a probe that succeeded
ProbesOfFirstTwoLinks ==
    /\ Len(contact_probes) <= 2
    /\ \E f \in [1..Len(contact_probes) -> 1..Min(2, Len(page.contact_links))] :
          /\ \A n \in DOMAIN f :
                LET full_url == urljoin(event_data.event_link, page.contact_links[f[n]])
                IN  /\ ~IsNone(full_url)
                    /\ contact_probes[n].url = full_url.value
          /\ \A n, m \in DOMAIN f : n < m => f[n] < f[m]
    /\ \A n \in 1..(Len(contact_probes) - 1) : ~contact_probes[n].alive

\* the probe that succeeds sets the website to the probed URL and the status
\* to 'Contact_Page_Found', leaves the other fields, and ends Method 3
FirstAliveProbeTaken ==
    ProbeSucceeds =>
        /\ organizer_info' =
               [organizer_info EXCEPT
                   !.organiser_website = contact_probes'[Len(contact_probes')].url,
                   !.verification_status = "Contact_Page_Found"]
        /\ pc' = "sleep"

SiteAndStatusStay ==
    /\ organizer_info'.organiser_website = organizer_info.organiser_website
    /\ organizer_info'.verification_status = organizer_info.verification_status

\* C13 (as claimed): Method 3 probes at most two URLs, those of the first two
\* matching links in document order; the first probe that succeeds sets
\* organiser_website to the resolved URL and verification_status to
\* 'Contact_Page_Found' and is the last probe; every other step of Method 3
\* leaves organiser_website and verification_status as Methods 1 and 2 left
\* them.
C13_ContactLinkProbing ==
    /\ [](pc \in {"method3", "sleep"} => ProbesOfFirstTwoLinks)
    /\ [][FirstAliveProbeTaken]_vars
    /\ [][(pc = "method3" /\ ~ProbeSucceeds) => SiteAndStatusStay]_vars

\* C13 (amended): as claimed, except that a step of Method 3 in which the
\* resolution of a link raises an exception leaves organiser_website as it
\* is and replaces verification_status with an error tag.
C13_ContactLinkProbingUnlessRaised ==
    /\ [](pc \in {"method3", "sleep"} => ProbesOfFirstTwoLinks)
    /\ [][FirstAliveProbeTaken]_vars
    /\ [][(pc = "method3" /\ ~ProbeSucceeds) =>
             IF raisedAt' = raisedAt
             THEN SiteAndStatusStay
             ELSE /\ organizer_info'.organiser_website = organizer_info.organiser_website
                  /\ organizer_info'.verification_status \in ErrorTags]_vars

\* C13 witness: of three matching links the first was probed without success
\* and the second with success; Method 3 ends without probing the third, the
\* website Method 1 had set replaced by the resolved URL of the second link.
C13_Witness ==
    /\ pc = "sleep"
    /\ Len(page.contact_links) = 3
    /\ SucceededA(page)
    /\ contact_probes = <<[url |-> "https://10times.com/contact", alive |-> FALSE],
                          [url |-> "https://10times.com/about-us", alive |-> TRUE]>>
    /\ organizer_info.organiser_website = "https://10times.com/about-us"
    /\ organizer_info.verification_status = "Contact_Page_Found"

\* C14: in every record the driver has appended, verification_status
\* 'Website_Found' or 'Contact_Page_Found' comes with an organiser_website
\* other than 'N/A', 'Email_Found' with an organiser_email other than 'N/A',
\* and an organiser_name other than 'N/A' with an organiser_website other
\* than 'N/A'.
C14_ProvenanceMatchesData ==
    \A n \in 1..Len(scraped_data) :
        LET record == scraped_data[n]
        IN  /\ record.verification_status \in {"Website_Found", "Contact_Page_Found"}
                => record.organiser_website # NA
            /\ record.verification_status = "Email_Found"
                => record.organiser_email # NAs
            /\ record.organiser_name # NA => record.organiser_website # NA

\* C14 witness: a first record whose website comes from Method 3 and whose
\* name from Method 1, and a second record of an extraction that raised
\* inside Method 1 after the website was stored and before the name was.
C14_Witness ==
    /\ Len(scraped_data) = 2
    /\ scraped_data[1].verification_status = "Contact_Page_Found"
    /\ scraped_data[1].organiser_name = "Acme Pharma"
    /\ scraped_data[1].organiser_website = "https://10times.com/contact"
    /\ scraped_data[1].organiser_email = Email_acme
    /\ scraped_data[2].verification_status = ErrIndex
    /\ scraped_data[2].organiser_name = NA
    /\ scraped_data[2].organiser_website = HrefRedirect

====
